---- MODULE Spec2Model ----
(***************************************************************************)
(* oaf-testrails-io: conversion between a tree of .test.txt files and a    *)
(* TestRail CSV table (index.js).                                          *)
(*                                                                         *)
(* Text is modelled as sequences of one-character strings, so that the     *)
(* regular expressions, the path functions and the whitespace handling of  *)
(* index.js are computed character by character.  Paths follow the POSIX   *)
(* flavour of node's path module (path.sep = "/").                         *)
(***************************************************************************)
EXTENDS Naturals, Integers, Sequences, FiniteSets, TLC

(***************************************************************************)
(* Characters and strings                                                  *)
(***************************************************************************)

\* A string literal as a sequence of one-character strings.
Chars(s) == [i \in 1..Len(s) |-> SubSeq(s, i, i)]

Range(f) == {f[i] : i \in DOMAIN f}

\* The characters of the model in ascending order of their UTF-16 code
\* unit: the order JavaScript's < uses on strings.
AsciiOrder ==
    Chars("\t\n\r !#$%&()+,-./0123456789:;<=>?@ABCDEFGHIJKLMNOPQRSTUVWXYZ[\\]^_abcdefghijklmnopqrstuvwxyz{|}~")

CharCode == [c \in Range(AsciiOrder) |-> CHOOSE i \in DOMAIN AsciiOrder : AsciiOrder[i] = c]

UpperChars == Chars("ABCDEFGHIJKLMNOPQRSTUVWXYZ")
LowerChars == Chars("abcdefghijklmnopqrstuvwxyz")
DigitChars == Chars("0123456789")

\* The canonical form a case-insensitive RegExp compares characters in.
CanonMap ==
    [c \in Range(AsciiOrder) |->
        IF c \in Range(LowerChars)
        THEN UpperChars[CHOOSE i \in DOMAIN LowerChars : LowerChars[i] = c]
        ELSE c]

Canon(c) == CanonMap[c]

\* \s of a RegExp, and the characters String.prototype.trim strips.
IsSpace(c) == c \in {" ", "\t", "\n", "\r"}

\* The characters "." of a RegExp matches: all but the line terminators.
IsDot(c) == c \notin {"\n", "\r"}

\* [A-Za-z0-9]
IsAlnum(c) == c \in Range(UpperChars) \cup Range(LowerChars) \cup Range(DigitChars)

\* a < b on JavaScript strings.
RECURSIVE StrLess(_, _)
StrLess(a, b) ==
    IF b = <<>> THEN FALSE
    ELSE IF a = <<>> THEN TRUE
    ELSE IF Head(a) = Head(b) THEN StrLess(Tail(a), Tail(b))
    ELSE CharCode[Head(a)] < CharCode[Head(b)]

\* Array.prototype.join
RECURSIVE Join(_, _)
Join(parts, sep) ==
    IF parts = <<>> THEN <<>>
    ELSE IF Len(parts) = 1 THEN parts[1]
    ELSE parts[1] \o sep \o Join(Tail(parts), sep)

\* String.prototype.split on a one-character separator.
RECURSIVE Split(_, _)
Split(s, ch) ==
    IF \A k \in DOMAIN s : s[k] # ch THEN <<s>>
    ELSE LET k == CHOOSE k \in DOMAIN s : s[k] = ch /\ \A m \in 1..(k-1) : s[m] # ch
         IN  <<SubSeq(s, 1, k-1)>> \o Split(SubSeq(s, k+1, Len(s)), ch)

\* String.prototype.trim
RECURSIVE TrimLeft(_)
TrimLeft(s) == IF s # <<>> /\ IsSpace(Head(s)) THEN TrimLeft(Tail(s)) ELSE s

RECURSIVE TrimRight(_)
TrimRight(s) ==
    IF s # <<>> /\ IsSpace(s[Len(s)]) THEN TrimRight(SubSeq(s, 1, Len(s)-1)) ELSE s

Trim(s) == TrimRight(TrimLeft(s))

StartsWith(s, p) == Len(s) >= Len(p) /\ SubSeq(s, 1, Len(p)) = p
EndsWith(s, p) == Len(s) >= Len(p) /\ SubSeq(s, Len(s) - Len(p) + 1, Len(s)) = p

\* The values JavaScript has besides strings: null and undefined.  Both are
\* one-element sequences, so that they compare with strings.
Null == <<"null">>
Undefined == <<"undefined">>
IsNullish(v) == v = Null \/ v = Undefined
\* JavaScript truthiness of a string, null or undefined.
Truthy(v) == ~IsNullish(v) /\ v # <<>>
\* String concatenation's conversion of its operand (ToString).
ToStr(v) == IF v = Null THEN Chars("null")
            ELSE IF v = Undefined THEN Chars("undefined")
            ELSE v

(***************************************************************************)
(* node's path module, POSIX                                               *)
(***************************************************************************)
Sep == "/"

IsAbsolute(p) == p # <<>> /\ p[1] = Sep

\* normalizeString: drops empty and "." segments and resolves ".." ones.
RECURSIVE NormalizeSegs(_, _, _)
NormalizeSegs(segs, res, allowAboveRoot) ==
    IF segs = <<>> THEN res
    ELSE LET s == Head(segs)
             dotdot == Chars("..")
             res2 == IF s = <<>> \/ s = Chars(".") THEN res
                     ELSE IF s = dotdot
                     THEN IF res # <<>> /\ res[Len(res)] # dotdot
                          THEN SubSeq(res, 1, Len(res)-1)
                          ELSE IF allowAboveRoot THEN Append(res, dotdot) ELSE res
                     ELSE Append(res, s)
         IN  NormalizeSegs(Tail(segs), res2, allowAboveRoot)

\* path.normalize
Normalize(p) ==
    IF p = <<>> THEN Chars(".")
    ELSE LET abs == IsAbsolute(p)
             trailing == p[Len(p)] = Sep
             body == Join(NormalizeSegs(Split(p, Sep), <<>>, ~abs), <<Sep>>)
             body2 == IF body = <<>> /\ ~abs THEN Chars(".")
                      ELSE IF body # <<>> /\ trailing THEN Append(body, Sep)
                      ELSE body
         IN  IF abs THEN <<Sep>> \o body2 ELSE body2

\* path.join of two arguments
PathJoin(a, b) ==
    LET joined == IF a = <<>> THEN b
                  ELSE IF b = <<>> THEN a
                  ELSE a \o <<Sep>> \o b
    IN  Normalize(joined)

\* path.dirname
Dirname(p) ==
    LET cuts == {i \in 2..Len(p) : p[i] = Sep /\ \E j \in (i+1)..Len(p) : p[j] # Sep}
    IN  IF cuts = {} THEN (IF IsAbsolute(p) THEN <<Sep>> ELSE Chars("."))
        ELSE LET e == CHOOSE i \in cuts : \A j \in cuts : j <= i
             IN  IF IsAbsolute(p) /\ e = 2 THEN <<Sep, Sep>> ELSE SubSeq(p, 1, e - 1)

RECURSIVE StripTrailingSep(_)
StripTrailingSep(p) ==
    IF p # <<>> /\ p[Len(p)] = Sep THEN StripTrailingSep(SubSeq(p, 1, Len(p)-1)) ELSE p

\* path.basename
Basename(p) ==
    LET q == StripTrailingSep(p)
        segs == Split(q, Sep)
    IN  segs[Len(segs)]

\* Length of the longest common prefix of two segment lists.
RECURSIVE CommonPrefix(_, _)
CommonPrefix(a, b) ==
    IF a # <<>> /\ b # <<>> /\ Head(a) = Head(b)
    THEN 1 + CommonPrefix(Tail(a), Tail(b))
    ELSE 0

\* path.relative of two absolute paths
Relative(from, to) ==
    LET f == NormalizeSegs(Split(from, Sep), <<>>, FALSE)
        t == NormalizeSegs(Split(to, Sep), <<>>, FALSE)
        c == CommonPrefix(f, t)
    IN  Join([i \in 1..(Len(f) - c) |-> Chars("..")] \o SubSeq(t, c + 1, Len(t)), <<Sep>>)

(***************************************************************************)
(* TestRail fields                                                         *)
(***************************************************************************)
trFields ==
    << "ID", "Title", "Created By", "Created On", "Expected Result", "Milestone",
       "Priority", "References", "Section", "Section Depth", "Section Description",
       "Section Hierarchy", "Steps", "Suite", "Suite ID", "Type", "Updated By",
       "Updated On" >>

\* A serializer that persists every field of trFields.
persistedTrFieldsAll == trFields

persistedTrFields ==
    << "ID", "Created By", "Created On", "Milestone", "Priority", "References",
       "Suite", "Suite ID", "Type" >>

testFileSuffix == Chars(".test.txt")

\* replace(testFileSuffixRegex, "")
StripSuffix(s) ==
    IF EndsWith(s, testFileSuffix) THEN SubSeq(s, 1, Len(s) - Len(testFileSuffix)) ELSE s

\* A row object: a function from some field names to values.  row[k] of a
\* missing key is undefined.
Get(row, k) == IF k \in DOMAIN row THEN row[k] ELSE Undefined

\* An assignment in which the target's own keys win over the source's.
AssignKeepFirst(a, b) ==
    [k \in DOMAIN a \cup DOMAIN b |-> IF k \in DOMAIN a THEN a[k] ELSE b[k]]

\* Object.assign(a, b)
Assign(a, b) == [k \in DOMAIN a \cup DOMAIN b |-> IF k \in DOMAIN b THEN b[k] ELSE a[k]]

EmptyObj == [k \in {} |-> <<>>]

\* The field names as text, in the order of trFields.
trFieldChars == [j \in DOMAIN trFields |-> Chars(trFields[j])]

NoMatch == [matched |-> FALSE, value |-> <<>>]

\* line.match(trRegexes[j]): the RegExp
\* ^\s?FIELD\s?:\s?(.*)$ with the i flag; value is the group (.*).
Match(line, j) ==
    LET name == trFieldChars[j]
        p == IF line # <<>> /\ IsSpace(line[1]) THEN 1 ELSE 0
        n == Len(name)
        nameOk == /\ Len(line) >= p + n
                  /\ \A k \in 1..n : Canon(line[p + k]) = Canon(name[k])
        q == IF Len(line) > p + n /\ IsSpace(line[p + n + 1]) THEN 1 ELSE 0
        colon == p + n + q + 1
        colonOk == Len(line) >= colon /\ line[colon] = ":"
        r == IF Len(line) > colon /\ IsSpace(line[colon + 1]) THEN 1 ELSE 0
        value == SubSeq(line, colon + r + 1, Len(line))
    IN  IF nameOk /\ colonOk /\ (\A k \in DOMAIN value : IsDot(value[k]))
        THEN [matched |-> TRUE, value |-> value]
        ELSE NoMatch

\* The index of the first regex of trRegexes the line matches, 0 for none.
FirstMatch(line) ==
    LET hits == {j \in DOMAIN trFields : Match(line, j).matched}
    IN  IF hits = {} THEN 0 ELSE CHOOSE j \in hits : \A k \in hits : j <= k

(***************************************************************************)
(* trRowFor: the line parser                                               *)
(***************************************************************************)
\* A parser that starts in the result state.
ParserInitResult ==
    [lineType |-> "result", stepLines |-> <<>>, resultLines |-> <<>>,
     contentFields |-> [k \in {} |-> <<>>]]

ParserInit ==
    [lineType |-> "step", stepLines |-> <<>>, resultLines |-> <<>>,
     contentFields |-> EmptyObj]

\* A parser that falls back to the step state after every field line.
AfterFieldAlwaysStep(prevLineType) == "step"

\* A parser that goes to the result state after every field line.
AfterFieldAlwaysResult(prevLineType) == "result"

\* The line type after a field line has been consumed.
AfterField(prevLineType) == prevLineType

\* One iteration of the loop over the lines.
ParseStep(st, line) ==
    LET j == FirstMatch(line)
        m == IF j = 0 THEN NoMatch ELSE Match(line, j)
        lt == IF j = 0 THEN st.lineType
              ELSE IF trFields[j] = "Expected Result" THEN "result"
              ELSE IF trFields[j] = "Steps" THEN "step"
              ELSE "field"
        ln == IF j # 0 /\ lt # "field" THEN m.value ELSE line
        cf == IF lt = "field"
              THEN Assign(st.contentFields, [k \in {trFields[j]} |-> m.value])
              ELSE st.contentFields
    IN  [lineType |-> IF lt = "field" THEN AfterField(st.lineType) ELSE lt,
         stepLines |-> IF lt = "step" THEN Append(st.stepLines, ln) ELSE st.stepLines,
         resultLines |-> IF lt = "result" THEN Append(st.resultLines, ln)
                         ELSE st.resultLines,
         contentFields |-> cf]

RECURSIVE ParseLines(_, _)
ParseLines(st, ls) ==
    IF ls = <<>> THEN st ELSE ParseLines(ParseStep(st, Head(ls)), Tail(ls))

\* A git log entry is <<author_name, author_email, date>>; none is <<>>.
NoLog == <<>>

\* JSON.stringify(Object.assign({}, log), null, 2)
JsonOf(log) ==
    Chars("{\n  \"author_name\": \"") \o log[1]
    \o Chars("\",\n  \"author_email\": \"") \o log[2]
    \o Chars("\",\n  \"date\": \"") \o log[3] \o Chars("\"\n}")

\* TestRail's nested sections: the directories of the file joined by " > ".
pathToTrSection(testFile) ==
    LET rel == IF IsAbsolute(testFile) THEN Tail(testFile) ELSE testFile
        trPath == Dirname(rel)
    IN  IF trPath = Chars(".") THEN <<>>
        ELSE Join(Split(trPath, Sep), Chars(" > "))

\* The keys of the row literal of trRowFor.
RowLiteral(title, steps, hierarchy, results) ==
    [k \in {"Title", "Steps", "Section", "Expected Result"} |->
        IF k = "Title" THEN title
        ELSE IF k = "Steps" THEN steps
        ELSE IF k = "Section" THEN hierarchy
        ELSE results]

GitInfo(createLog, modifiedLog) ==
    IF createLog # NoLog /\ modifiedLog # NoLog
    THEN [k \in {"Created By", "Created On", "Updated By", "Updated On"} |->
            IF k = "Created By" THEN createLog[1] \o Chars(" (") \o createLog[2] \o Chars(")")
            ELSE IF k = "Created On" THEN createLog[3]
            ELSE IF k = "Updated By"
            THEN modifiedLog[1] \o Chars(" (") \o modifiedLog[2] \o Chars(")")
            ELSE modifiedLog[3]]
    ELSE EmptyObj

\* The part of trRowFor after the loop: st is the parser's final state.
BuildRow(testFile, st, createLog, modifiedLog, addGitFooter) ==
    LET title == StripSuffix(Basename(testFile))
        steps0 == Trim(Join(st.stepLines, <<"\n">>))
        results == Trim(Join(st.resultLines, <<"\n">>))
        hierarchy == pathToTrSection(testFile)
        steps == IF createLog # NoLog /\ modifiedLog # NoLog /\ addGitFooter
                 THEN steps0 \o Chars("\n\nLatest Update:\n") \o JsonOf(modifiedLog)
                 ELSE steps0
    IN  Assign(Assign(RowLiteral(title, steps, hierarchy, results),
                      GitInfo(createLog, modifiedLog)),
               st.contentFields)

trRowFor(testFile, content, createLog, modifiedLog, addGitFooter) ==
    BuildRow(testFile, ParseLines(ParserInit, Split(content, "\n")),
             createLog, modifiedLog, addGitFooter)

(***************************************************************************)
(* safePath and testFor: the serializer                                    *)
(***************************************************************************)

\* replace(/[\\\/]/g, '_')
ReplaceSlashes(s) == [i \in DOMAIN s |-> IF s[i] \in {"\\", "/"} THEN "_" ELSE s[i]]

\* replace(/ > /g, path.sep)
RECURSIVE ExpandSectionSep(_)
ExpandSectionSep(s) ==
    IF s = <<>> THEN <<>>
    ELSE IF StartsWith(s, Chars(" > "))
    THEN <<Sep>> \o ExpandSectionSep(SubSeq(s, 4, Len(s)))
    ELSE <<Head(s)>> \o ExpandSectionSep(Tail(s))

\* The character class the last replace of safePath keeps: [A-Za-z0-9\\\/]
IsSafeChar(c) == IsAlnum(c) \/ c \in {"\\", "/"}

\* A safePath that returns the joined path as it is.
SanitizeNot(s) == s

\* replace(/[^A-Za-z0-9\\\/]/g, '_')
Sanitize(s) == [i \in DOMAIN s |-> IF IsSafeChar(s[i]) THEN s[i] ELSE "_"]

\* substring(0, 200) of the title
TitleMax == 200

safePath(sectionPath, title) ==
    LET sp == ExpandSectionSep(ReplaceSlashes(sectionPath))
        t0 == ReplaceSlashes(title)
        t == SubSeq(t0, 1, IF Len(t0) < TitleMax THEN Len(t0) ELSE TitleMax)
    IN  Sanitize(PathJoin(sp, t))

\* replace(/[ \t]+/g, ' ')
RECURSIVE CollapseWs(_)
CollapseWs(s) ==
    IF s = <<>> THEN <<>>
    ELSE IF Head(s) \in {" ", "\t"}
    THEN IF Len(s) > 1 /\ s[2] \in {" ", "\t"}
         THEN CollapseWs(Tail(s))
         ELSE <<" ">> \o CollapseWs(Tail(s))
    ELSE <<Head(s)>> \o CollapseWs(Tail(s))

\* The section testFor derives the path from.
SectionPathOf(trRow) ==
    IF "Section Hierarchy" \in DOMAIN trRow /\ Truthy(trRow["Section Hierarchy"])
    THEN trRow["Section Hierarchy"]
    ELSE Get(trRow, "Section")

\* testFor throws a TypeError when it calls replace on a missing value.
TestForThrows(trRow) ==
    IsNullish(SectionPathOf(trRow)) \/ IsNullish(Get(trRow, "Title"))

\* A serializer that writes a line for a null value too.
RECURSIVE FieldContentKeepNull(_, _)
FieldContentKeepNull(trRow, fs) ==
    IF fs = <<>> THEN <<>>
    ELSE IF Get(trRow, Head(fs)) = Undefined THEN FieldContentKeepNull(trRow, Tail(fs))
    ELSE <<Chars(Head(fs)) \o Chars(": ") \o ToStr(trRow[Head(fs)])>>
         \o FieldContentKeepNull(trRow, Tail(fs))

\* The "<FieldName>: <value>" lines of the fields in fs, in order.
RECURSIVE FieldContent(_, _)
FieldContent(trRow, fs) ==
    IF fs = <<>> THEN <<>>
    ELSE IF IsNullish(Get(trRow, Head(fs))) THEN FieldContent(trRow, Tail(fs))
    ELSE <<Chars(Head(fs)) \o Chars(": ") \o trRow[Head(fs)]>>
         \o FieldContent(trRow, Tail(fs))

\* testFor(trRow) = <<testFile, content>>, for a row it does not throw on.
testFor(trRow) ==
    LET testFile == safePath(SectionPathOf(trRow), trRow["Title"]) \o testFileSuffix
        steps0 == Get(trRow, "Steps")
        steps == IF Truthy(steps0) THEN CollapseWs(steps0) ELSE steps0
        results0 == Get(trRow, "Expected Result")
        results == IF Truthy(results0) THEN CollapseWs(results0) ELSE results0
        content == ToStr(steps) \o Chars("\n\n")
                   \o (IF Truthy(results)
                       THEN Chars("Expected Result:\n") \o results \o Chars("\n\n")
                       ELSE <<>>)
    IN  <<testFile, content \o Join(FieldContent(trRow, persistedTrFields), <<"\n">>)>>

(***************************************************************************)
(* State                                                                   *)
(***************************************************************************)
VARIABLES
    \* testFor and trRowFor on one test
    pc,             \* "idle", "testFor", "parse", "done" or "threw"
    trRow,          \* the CSV row given to testFor (EmptyObj when a file is parsed)
    testFile,       \* the path of the test file, relative to the test root
    content,        \* the text of the test file
    createLog,      \* git log entry of the commit that added the file, or NoLog
    modifiedLog,    \* git log entry of the last commit of the file, or NoLog
    addGitFooter,   \* the --add-git-footer flag
    lines,          \* content.split('\n')
    idx,            \* the loop index i, from 1
    lineType,       \* "step" or "result" between iterations
    stepLines,
    resultLines,
    contentFields,
    row,            \* the row trRowFor returns
    \* saveToTestDir
    ipc,            \* "idle", "ready" (not called yet), "called" or "threw"
    testRows,       \* the rows of the imported table
    sortedDirs,     \* the directories to create: [dir, desc, tests], sorted
    mkdirsSt,       \* per directory, the state of fsUtils.mkdirs
    descSt,         \* per directory, the state of the Section.meta.txt write
    writeSt,        \* per directory and test, the state of the test-file write
    dirPromise,     \* per directory, the promise made in the then callback
    dirWrites,      \* the promise saveToTestDir returns
    disk,           \* the files written so far: path -> content
    \* readTestDir and saveToTrCsv
    epc,            \* "idle", "walking", "walked", "saved" or "crashed"
    tree,           \* the entries under the test root, in the order walked
    gitRevParse,    \* how git rev-parse ends there: exit status and stderr
    gitCheck,       \* what isGitRepo does there: "repo", "notRepo" or "throws"
    walkPos,        \* the next entry fsUtils.walk visits
    reads,          \* per test file read, the state of readTestFile
    readTestFiles,  \* the accumulator of readTestDir
    readDir,        \* the promise readTestDir returns
    csvRows,        \* the rows saveToTrCsv hands to csv.stringify
    csvWrite,       \* the promise saveToTrCsv returns
    \* safePath and pathToTrSection on one section and title
    ppc,            \* "idle", "safePath", "pathToTrSection" or "done"
    sectionPath,    \* the first argument of safePath
    title,          \* the second argument of safePath
    fullPath,       \* what safePath returned
    trSection       \* what pathToTrSection returned for fullPath + testFileSuffix

codecVars ==
    << pc, trRow, testFile, content, createLog, modifiedLog, addGitFooter, lines, idx,
       lineType, stepLines, resultLines, contentFields, row >>

importVars ==
    << ipc, testRows, sortedDirs, mkdirsSt, descSt, writeSt, dirPromise, dirWrites, disk >>

exportVars ==
    << epc, tree, gitRevParse, gitCheck, walkPos, reads, readTestFiles, readDir, csvRows,
       csvWrite >>

pathVars == << ppc, sectionPath, title, fullPath, trSection >>

vars == << codecVars, importVars, exportVars, pathVars >>

(***************************************************************************)
(* Inputs of testFor and trRowFor                                          *)
(***************************************************************************)

\* The most lines a parsed file has.
MaxLines == 3

LineSet ==
    { Chars("s1"), Chars("r 2"), <<>>,
      Chars("Expected Result:"), Chars(" expected result : r1"),
      Chars("Steps: s2"), Chars("Priority: High"), Chars("Title: X"),
      Chars("created by:me"), Chars("ID  : 7") }

ContentSet ==
    UNION { { Join(ls, <<"\n">>) : ls \in [1..n -> LineSet] } : n \in 1..MaxLines }

TestFileSet ==
    { Chars("name.test.txt"), Chars("a/name.test.txt"), Chars("a/b/name.test.txt") }

LogA == << Chars("Ann"), Chars("ann@x.org"), Chars("2019-01-02") >>
LogB == << Chars("Bob"), Chars("bob@x.org"), Chars("2020-03-04") >>

\* <<createLog, modifiedLog, addGitFooter>>
GitSet == { <<NoLog, NoLog, FALSE>>, <<LogA, LogB, FALSE>>, <<LogA, LogB, TRUE>> }

\* A row with the given columns; a column whose value is Undefined is absent.
MkRow(cols) == [k \in {c \in DOMAIN cols : cols[c] # Undefined} |-> cols[k]]

LongTitle == [i \in 1..(TitleMax + 1) |-> "A"]

TitleSet == { Undefined, <<>>, Chars("T1"), Chars("My Test!"), LongTitle }
HierarchySet == { Undefined, Chars("a > b"), Chars("x/y") }
SectionSet == { Undefined, Chars("b") }
StepsSet == { Undefined, Chars("s1"), Chars(" s1 \t s2\nt"), Chars("ID  : 7") }
ResultSet == { Undefined, <<>>, Chars("r1\n\nr2 "), Chars("Steps: x") }
IdSet == { Undefined, Chars("7"), Chars(" x") }
PrioritySet == { Undefined, Null, Chars("High") }
UpdatedBySet == { Undefined, Chars("u") }

RowSet ==
    { MkRow([k \in {"Title", "Section Hierarchy", "Section", "Steps", "Expected Result",
                    "ID", "Priority", "Updated By"} |->
                IF k = "Title" THEN t
                ELSE IF k = "Section Hierarchy" THEN h
                ELSE IF k = "Section" THEN s
                ELSE IF k = "Steps" THEN st
                ELSE IF k = "Expected Result" THEN er
                ELSE IF k = "ID" THEN id
                ELSE IF k = "Priority" THEN pr
                ELSE ub]) :
        t \in TitleSet, h \in HierarchySet, s \in SectionSet, st \in StepsSet,
        er \in ResultSet, id \in IdSet, pr \in PrioritySet, ub \in UpdatedBySet }

(***************************************************************************)
(* testFor followed by trRowFor, one line at a time                        *)
(***************************************************************************)

\* A promise: pending, resolved, or rejected with a reason.
Pending == [state |-> "pending", reason |-> <<>>]
Resolved == [state |-> "resolved", reason |-> <<>>]
Rejected(reason) == [state |-> "rejected", reason |-> reason]

\* s holds p as a substring: a match of a regular expression that is a
\* literal text, case-sensitive.
Contains(s, p) == \E i \in 0..(Len(s) - Len(p)) : SubSeq(s, i + 1, i + Len(p)) = p

\* How `git rev-parse --is-inside-work-tree` ends: inside a work tree with
\* status 0; outside one with status 128 and a message on stderr, which
\* begins with a capital letter in older versions of git and with a small
\* one in current ones.
InRepo == [status |-> 0, stderr |-> <<>>]
NotInRepoOld ==
    [status |-> 128,
     stderr |-> Chars("fatal: Not a git repository (or any of the parent directories): .git\n")]
NotInRepoNew ==
    [status |-> 128,
     stderr |-> Chars("fatal: not a git repository (or any of the parent directories): .git\n")]
GitRevParseSet == { InRepo, NotInRepoOld, NotInRepoNew }

\* err.stderr && err.stderr.match(/Not a git repository/)
NotARepo(err) ==
    err.stderr # <<>> /\ Contains(err.stderr, Chars("Not a git repository"))

\* isGitRepo: true when execSync returns, false when it throws with the
\* message matched, and the exception thrown again otherwise.
isGitRepo(res) ==
    IF res.status = 0 THEN "repo"
    ELSE IF NotARepo(res) THEN "notRepo"
    ELSE "throws"

\* Nothing is being parsed or serialized.
CodecIdle ==
    /\ pc = "idle"
    /\ trRow = EmptyObj
    /\ testFile = <<>>
    /\ content = <<>>
    /\ createLog = NoLog /\ modifiedLog = NoLog /\ addGitFooter = FALSE
    /\ lines = <<>>
    /\ idx = 1
    /\ lineType = ParserInit.lineType
    /\ stepLines = ParserInit.stepLines
    /\ resultLines = ParserInit.resultLines
    /\ contentFields = ParserInit.contentFields
    /\ row = EmptyObj

\* No import is running.
ImportIdle ==
    /\ ipc = "idle"
    /\ testRows = <<>>
    /\ sortedDirs = <<>>
    /\ mkdirsSt = <<>>
    /\ descSt = <<>>
    /\ writeSt = <<>>
    /\ dirPromise = <<>>
    /\ dirWrites = Pending
    /\ disk = EmptyObj

\* No export is running.
ExportIdle ==
    /\ epc = "idle"
    /\ tree = <<>>
    /\ gitRevParse = NotInRepoOld
    /\ gitCheck = "notRepo"
    /\ walkPos = 1
    /\ reads = EmptyObj
    /\ readTestFiles = <<>>
    /\ readDir = Pending
    /\ csvRows = <<>>
    /\ csvWrite = Pending

\* safePath is not being applied.
PathIdle ==
    /\ ppc = "idle"
    /\ sectionPath = <<>>
    /\ title = <<>>
    /\ fullPath = <<>>
    /\ trSection = <<>>

\* trRowFor entered with a file read by readTestFile.
CodecInitFile ==
    /\ pc = "parse"
    /\ trRow = EmptyObj
    /\ testFile \in TestFileSet
    /\ content \in ContentSet
    /\ \E g \in GitSet : createLog = g[1] /\ modifiedLog = g[2] /\ addGitFooter = g[3]
    /\ lines = Split(content, "\n")

\* testFor about to be called on a row of the imported table.
CodecInitRow ==
    /\ pc = "testFor"
    /\ trRow \in RowSet
    /\ testFile = <<>>
    /\ content = <<>>
    /\ createLog = NoLog /\ modifiedLog = NoLog /\ addGitFooter = FALSE
    /\ lines = <<>>

CodecInit ==
    /\ ImportIdle
    /\ ExportIdle
    /\ PathIdle
    /\ CodecInitFile \/ CodecInitRow
    /\ idx = 1
    /\ lineType = ParserInit.lineType
    /\ stepLines = ParserInit.stepLines
    /\ resultLines = ParserInit.resultLines
    /\ contentFields = ParserInit.contentFields
    /\ row = EmptyObj

\* testFor(trRow); the file it describes is then read back and parsed.
TestFor ==
    /\ pc = "testFor"
    /\ IF TestForThrows(trRow)
       THEN /\ pc' = "threw"
            /\ UNCHANGED << testFile, content, lines >>
       ELSE /\ pc' = "parse"
            /\ testFile' = testFor(trRow)[1]
            /\ content' = testFor(trRow)[2]
            /\ lines' = Split(testFor(trRow)[2], "\n")
    /\ UNCHANGED << trRow, createLog, modifiedLog, addGitFooter, idx, lineType,
                    stepLines, resultLines, contentFields, row >>
    /\ UNCHANGED << importVars, exportVars, pathVars >>

\* One iteration of the loop of trRowFor over the lines.
ParseLine ==
    /\ pc = "parse"
    /\ idx <= Len(lines)
    /\ LET st == ParseStep([lineType |-> lineType, stepLines |-> stepLines,
                            resultLines |-> resultLines,
                            contentFields |-> contentFields], lines[idx])
       IN  /\ lineType' = st.lineType
           /\ stepLines' = st.stepLines
           /\ resultLines' = st.resultLines
           /\ contentFields' = st.contentFields
    /\ idx' = idx + 1
    /\ UNCHANGED << pc, trRow, testFile, content, createLog, modifiedLog, addGitFooter,
                    lines, row >>
    /\ UNCHANGED << importVars, exportVars, pathVars >>

\* The loop is over: trRowFor builds and returns the row.
ReturnRow ==
    /\ pc = "parse"
    /\ idx > Len(lines)
    /\ row' = BuildRow(testFile,
                       [lineType |-> lineType, stepLines |-> stepLines,
                        resultLines |-> resultLines, contentFields |-> contentFields],
                       createLog, modifiedLog, addGitFooter)
    /\ pc' = "done"
    /\ UNCHANGED << trRow, testFile, content, createLog, modifiedLog, addGitFooter,
                    lines, idx, lineType, stepLines, resultLines, contentFields >>
    /\ UNCHANGED << importVars, exportVars, pathVars >>

CodecNext == TestFor \/ ParseLine \/ ReturnRow

SpecCodec == CodecInit /\ [][CodecNext]_vars

(***************************************************************************)
(* Properties of trRowFor and testFor (SpecCodec)                          *)
(***************************************************************************)
FieldOf(line) == IF FirstMatch(line) = 0 THEN "" ELSE trFields[FirstMatch(line)]
IsResultMarker(line) == FieldOf(line) = "Expected Result"
IsStepsMarker(line) == FieldOf(line) = "Steps"

\* A line before the current one matches the Expected Result marker.
SeenResultMarker == \E k \in 1..(idx - 1) : k <= Len(lines) /\ IsResultMarker(lines[k])

\* The last marker line before the current one is an Expected Result line.
ResultSectionOpen ==
    \E k \in 1..(idx - 1) :
        /\ k <= Len(lines)
        /\ IsResultMarker(lines[k])
        /\ \A m \in (k + 1)..(idx - 1) : ~IsStepsMarker(lines[m])

\* C7, as stated: once a line matching the Expected Result marker has been
\* seen, no later line of the file is appended to the steps text.
C7_NoStepLineAfterResult ==
    [][(pc = "parse" /\ SeenResultMarker) => stepLines' = stepLines]_vars

\* C7, amended: once a line matching the Expected Result marker has been
\* seen, a later line is appended to the steps text only if it, or a line
\* between the marker and it, matches the Steps field; field lines and
\* unmatched lines never bring the parser back from result to step.
C7_StepOnlyAfterStepsMarker ==
    [][(pc = "parse" /\ idx <= Len(lines) /\ ResultSectionOpen
            /\ ~IsStepsMarker(lines[idx]))
        => stepLines' = stepLines]_vars

\* An Expected Result line, then a field line, then an unmatched line have
\* been parsed, and the unmatched line went to the result text.
C7_Witness ==
    /\ pc = "parse"
    /\ idx = 4
    /\ IsResultMarker(lines[1])
    /\ FieldOf(lines[2]) = "Priority"
    /\ lines[3] = Chars("s1")
    /\ resultLines[Len(resultLines)] = Chars("s1")
    /\ stepLines = <<>>

\* C8, as stated: the Title of the returned row is the base name of the
\* file without the .test.txt suffix, whatever the content is.
C8_TitleFromFileName ==
    pc = "done" => Get(row, "Title") = StripSuffix(Basename(testFile))

\* The directories of a relative file path, outermost first.
DirsOf(file) ==
    LET segs == Split(file, Sep) IN SubSeq(segs, 1, Len(segs) - 1)

EmptyOrAbsent(r, k) == Get(r, k) \in {Undefined, Null, <<>>}

\* C9, as stated: Section is the immediate parent directory, Section
\* Hierarchy is all the directories joined with " > " and Section Depth is
\* their number; for a file in the test root the three are empty or zero
\* (an absent key counts as empty there).
C9_SectionFields ==
    (pc = "done" /\ trRow = EmptyObj) =>
        LET dirs == DirsOf(testFile)
        IN  IF dirs = <<>>
            THEN /\ EmptyOrAbsent(row, "Section")
                 /\ EmptyOrAbsent(row, "Section Hierarchy")
                 /\ Get(row, "Section Depth") \in {Undefined, Chars("0")}
            ELSE /\ Get(row, "Section") = dirs[Len(dirs)]
                 /\ Get(row, "Section Hierarchy") = Join(dirs, Chars(" > "))
                 /\ Get(row, "Section Depth") = DigitChars[Len(dirs) + 1]

\* The persisted fields of a row that have a value, with their values.
PersistedOf(r) ==
    [k \in {f \in Range(persistedTrFields) : ~IsNullish(Get(r, f))} |-> r[k]]

IsText(v) == ~IsNullish(v)

\* [ \t]+ replaced by one space, written without the serializer's operator.
RECURSIVE Collapsed(_)
Collapsed(s) ==
    IF Len(s) < 2 THEN [i \in DOMAIN s |-> IF s[i] = "\t" THEN " " ELSE s[i]]
    ELSE IF s[1] \in {" ", "\t"} /\ s[2] \in {" ", "\t"} THEN Collapsed(Tail(s))
    ELSE <<IF s[1] = "\t" THEN " " ELSE s[1]>> \o Collapsed(Tail(s))

\* C10, as stated (for rows that have a non-empty Title, Steps, Expected
\* Result and a section): parsing what testFor wrote gives back the Title,
\* the Steps and the Expected Result with runs of spaces and tabs collapsed,
\* and exactly the persisted fields of the row.
C10_RoundTrip ==
    (pc = "done" /\ trRow # EmptyObj /\ Truthy(Get(trRow, "Title"))
        /\ IsText(Get(trRow, "Steps")) /\ IsText(Get(trRow, "Expected Result")))
    => /\ Get(row, "Title") = trRow["Title"]
       /\ Get(row, "Steps") = Collapsed(trRow["Steps"])
       /\ Get(row, "Expected Result") = Collapsed(trRow["Expected Result"])
       /\ contentFields = PersistedOf(trRow)

\* No line of the text is taken for a field annotation by the parser.
NoFieldLine(text) == \A l \in Range(Split(text, "\n")) : FirstMatch(l) = 0

\* The rows the amended C10 covers.
RoundTripRow(r) ==
    /\ Truthy(Get(r, "Title"))
    /\ Len(r["Title"]) <= TitleMax
    /\ \A i \in DOMAIN r["Title"] : IsAlnum(r["Title"][i])
    /\ IsText(SectionPathOf(r))
    /\ IsText(Get(r, "Steps")) /\ NoFieldLine(Collapsed(r["Steps"]))
    /\ IsText(Get(r, "Expected Result")) /\ NoFieldLine(Collapsed(r["Expected Result"]))
    /\ \A f \in DOMAIN PersistedOf(r) : \A i \in DOMAIN r[f] : IsDot(r[f][i])

\* C10, amended: for a row whose Title is 1 to 200 characters of
\* [A-Za-z0-9], that has a section, whose Steps and Expected Result are
\* strings no line of which (after collapsing) matches a field pattern, and
\* whose persisted values hold no line terminator, parsing what testFor wrote
\* (without git data) gives Title T, Steps and Expected Result collapsed and
\* then trimmed, and exactly the non-null persisted fields of the row.
C10_RoundTripWellFormed ==
    (pc = "done" /\ trRow # EmptyObj /\ RoundTripRow(trRow))
    => /\ Get(row, "Title") = trRow["Title"]
       /\ Get(row, "Steps") = Trim(Collapsed(trRow["Steps"]))
       /\ Get(row, "Expected Result") = Trim(Collapsed(trRow["Expected Result"]))
       /\ contentFields = PersistedOf(trRow)

\* A covered row whose Steps lose whitespace, with a persisted ID, a null
\* Priority and an Updated By column that is not persisted.
C10_Witness ==
    /\ pc = "done"
    /\ trRow # EmptyObj
    /\ RoundTripRow(trRow)
    /\ Get(trRow, "Steps") = Chars(" s1 \t s2\nt")
    /\ Get(trRow, "Expected Result") = Chars("r1\n\nr2 ")
    /\ Get(trRow, "ID") = Chars(" x")
    /\ Get(trRow, "Priority") = Null
    /\ "Updated By" \in DOMAIN trRow
    /\ Get(row, "Steps") = Chars("s1 s2\nt")
    /\ DOMAIN contentFields = {"ID"}

(***************************************************************************)
(* saveToTestDir                                                           *)
(***************************************************************************)

\* The most rows an imported table has.
MaxRows == 3

\* The directory the tests are imported to.
ImportDir == Chars("out")

ImportRow(hierarchy, rowTitle, steps, desc) ==
    MkRow([k \in {"Section Hierarchy", "Title", "Steps", "Section Description"} |->
             IF k = "Section Hierarchy" THEN hierarchy
             ELSE IF k = "Title" THEN rowTitle
             ELSE IF k = "Steps" THEN steps
             ELSE desc])

\* Rows of three directories (out/B sorts before out/a and out/a/b), two of
\* them with the same target file, and one without a Title column.
ImportRowSet ==
    { ImportRow(Chars("a"), Chars("T1"), Chars("s1"), Chars("dA")),
      ImportRow(Chars("a"), Chars("T_2"), Chars("s2"), Chars("dA2")),
      ImportRow(Chars("a"), Chars("T 2"), Chars("s3"), Chars("dA3")),
      ImportRow(Chars("a > b"), Chars("T1"), Chars("s4"), Chars("dB")),
      ImportRow(Chars("B"), Chars("T1"), Chars("s5"), <<>>),
      ImportRow(Chars("a"), Undefined, Chars("s6"), Chars("dA6")) }

TableSet == UNION { [1..n -> ImportRowSet] : n \in 0..MaxRows }

\* The position of sectionDir among the keys of sectionDirs, 0 when absent.
DirIndex(sectionDirs, sectionDir) ==
    IF \E i \in DOMAIN sectionDirs : sectionDirs[i].dir = sectionDir
    THEN CHOOSE i \in DOMAIN sectionDirs : sectionDirs[i].dir = sectionDir
    ELSE 0

\* One iteration of the first loop of saveToTestDir: sectionDirs, an object
\* whose keys are kept in insertion order, after the row is added.
AddRow(sectionDirs, r, testDir) ==
    LET file == PathJoin(testDir, testFor(r)[1])
        fileContent == testFor(r)[2]
        sectionDir == Dirname(file)
        descFile == PathJoin(sectionDir, Chars("Section.meta.txt"))
        withDir == IF DirIndex(sectionDirs, sectionDir) = 0
                   THEN Append(sectionDirs,
                               [dir |-> sectionDir,
                                desc |-> <<descFile, Get(r, "Section Description")>>,
                                tests |-> <<>>])
                   ELSE sectionDirs
        i == DirIndex(withDir, sectionDir)
    IN  [withDir EXCEPT ![i].tests = Append(@, <<file, fileContent>>)]

\* A grouping that takes the rows from the last to the first.
RECURSIVE GroupRowsReversed(_, _, _)
GroupRowsReversed(sectionDirs, rows, testDir) ==
    IF rows = <<>> THEN sectionDirs
    ELSE GroupRowsReversed(AddRow(sectionDirs, rows[Len(rows)], testDir),
                           SubSeq(rows, 1, Len(rows) - 1), testDir)

RECURSIVE GroupRows(_, _, _)
GroupRows(sectionDirs, rows, testDir) ==
    IF rows = <<>> THEN sectionDirs
    ELSE GroupRows(AddRow(sectionDirs, Head(rows), testDir), Tail(rows), testDir)

\* The comparator of sortedDirs.sort: a[0] < b[0] ? -1 : 1
DirBefore(a, b) == StrLess(a.dir, b.dir)

RECURSIVE InsertDir(_, _)
InsertDir(sorted, e) ==
    IF sorted = <<>> THEN <<e>>
    ELSE IF DirBefore(e, Head(sorted)) THEN <<e>> \o sorted
    ELSE <<Head(sorted)>> \o InsertDir(Tail(sorted), e)

\* sortedDirs.sort(...): the keys are distinct, so the result is the one
\* ordering the comparator allows.
RECURSIVE SortDirs(_)
SortDirs(ds) ==
    IF ds = <<>> THEN <<>>
    ELSE InsertDir(SortDirs(SubSeq(ds, 1, Len(ds) - 1)), ds[Len(ds)])

\* A Promise.all that is satisfied by the first write that succeeds.
AnyWritten(ws) == \E j \in DOMAIN ws : ws[j] = "ok"

\* Promise.all(testWrites) has resolved: every write promise is resolved.
AllWritten(ws) == \A j \in DOMAIN ws : ws[j] = "ok"

\* An I/O operation: not started, in flight, completed or failed.
OpStates == {"none", "pending", "ok", "failed"}

ImportInit ==
    /\ CodecIdle
    /\ ExportIdle
    /\ PathIdle
    /\ ipc = "ready"
    /\ testRows \in TableSet
    /\ sortedDirs = <<>>
    /\ mkdirsSt = <<>>
    /\ descSt = <<>>
    /\ writeSt = <<>>
    /\ dirPromise = <<>>
    /\ dirWrites = Pending
    /\ disk = EmptyObj

\* The synchronous body of saveToTestDir: the rows are grouped by directory,
\* the directories sorted and the then callbacks chained.
SaveToTestDir ==
    /\ ipc = "ready"
    /\ IF \E i \in DOMAIN testRows : TestForThrows(testRows[i])
       THEN /\ ipc' = "threw"
            /\ UNCHANGED << sortedDirs, mkdirsSt, descSt, writeSt, dirPromise, dirWrites >>
       ELSE LET sd == SortDirs(GroupRows(<<>>, testRows, ImportDir))
            IN  /\ ipc' = "called"
                /\ sortedDirs' = sd
                /\ mkdirsSt' = [i \in DOMAIN sd |-> "none"]
                /\ descSt' = [i \in DOMAIN sd |-> "none"]
                /\ writeSt' = [i \in DOMAIN sd |-> [j \in DOMAIN sd[i].tests |-> "none"]]
                /\ dirPromise' = [i \in DOMAIN sd |-> Pending]
                /\ dirWrites' = IF sd = <<>> THEN Resolved ELSE Pending
    /\ UNCHANGED << testRows, disk >>
    /\ UNCHANGED << codecVars, exportVars, pathVars >>

\* The then callback of directory i runs once the chain before it has
\* resolved: it makes the directory's promise and calls fsUtils.mkdirs.
DirThen(i) ==
    /\ ipc = "called"
    /\ i \in DOMAIN sortedDirs
    /\ mkdirsSt[i] = "none"
    /\ IF i = 1 THEN TRUE ELSE dirPromise[i - 1].state = "resolved"
    /\ mkdirsSt' = [mkdirsSt EXCEPT ![i] = "pending"]
    /\ UNCHANGED << ipc, testRows, sortedDirs, descSt, writeSt, dirPromise, dirWrites, disk >>
    /\ UNCHANGED << codecVars, exportVars, pathVars >>

\* reject(err) of directory i's promise; the rejection runs down the chain
\* of then calls to the promise saveToTestDir returned.
RejectDir(i, reason) ==
    /\ dirPromise' = [dirPromise EXCEPT
                        ![i] = IF @.state = "pending" THEN Rejected(reason) ELSE @]
    /\ dirWrites' = IF dirPromise[i].state = "pending" /\ dirWrites.state = "pending"
                    THEN Rejected(reason) ELSE dirWrites

\* The callback of fsUtils.mkdirs: rejects on an error, and in either case
\* goes on to write Section.meta.txt.
MkdirsDone(i, ok) ==
    /\ ipc = "called"
    /\ i \in DOMAIN sortedDirs
    /\ mkdirsSt[i] = "pending"
    /\ mkdirsSt' = [mkdirsSt EXCEPT ![i] = IF ok THEN "ok" ELSE "failed"]
    /\ IF ok THEN UNCHANGED << dirPromise, dirWrites >>
       ELSE RejectDir(i, <<"mkdirs", i, 0>>)
    /\ descSt' = [descSt EXCEPT ![i] = "pending"]
    /\ UNCHANGED << ipc, testRows, sortedDirs, writeSt, disk >>
    /\ UNCHANGED << codecVars, exportVars, pathVars >>

\* The callback of the Section.meta.txt write: rejects on an error, and in
\* either case starts the writes of all the test files of the directory.
DescDone(i, ok) ==
    /\ ipc = "called"
    /\ i \in DOMAIN sortedDirs
    /\ descSt[i] = "pending"
    /\ descSt' = [descSt EXCEPT ![i] = IF ok THEN "ok" ELSE "failed"]
    /\ IF ok THEN UNCHANGED << dirPromise, dirWrites >>
       ELSE RejectDir(i, <<"desc", i, 0>>)
    /\ disk' = IF ok
               THEN Assign(disk, [f \in {sortedDirs[i].desc[1]} |-> sortedDirs[i].desc[2]])
               ELSE disk
    /\ writeSt' = [writeSt EXCEPT ![i] = [j \in DOMAIN @ |-> "pending"]]
    /\ UNCHANGED << ipc, testRows, sortedDirs, mkdirsSt >>
    /\ UNCHANGED << codecVars, exportVars, pathVars >>

\* The callback of a test-file write.  An error rejects the write's own
\* promise, which nothing observes; when Promise.all of the directory's
\* writes resolves, the directory's promise is resolved, and after the last
\* directory so is the promise saveToTestDir returned.
WriteDone(i, j, ok) ==
    /\ ipc = "called"
    /\ i \in DOMAIN sortedDirs
    /\ j \in DOMAIN writeSt[i]
    /\ writeSt[i][j] = "pending"
    /\ writeSt' = [writeSt EXCEPT ![i][j] = IF ok THEN "ok" ELSE "failed"]
    /\ disk' = IF ok
               THEN Assign(disk, [f \in {sortedDirs[i].tests[j][1]} |->
                                    sortedDirs[i].tests[j][2]])
               ELSE disk
    /\ LET settles == AllWritten(writeSt'[i]) /\ dirPromise[i].state = "pending"
       IN  /\ dirPromise' = IF settles THEN [dirPromise EXCEPT ![i] = Resolved]
                            ELSE dirPromise
           /\ dirWrites' = IF settles /\ i = Len(sortedDirs) /\ dirWrites.state = "pending"
                           THEN Resolved ELSE dirWrites
    /\ UNCHANGED << ipc, testRows, sortedDirs, mkdirsSt, descSt >>
    /\ UNCHANGED << codecVars, exportVars, pathVars >>

ImportNext ==
    \/ SaveToTestDir
    \/ \E i \in 1..MaxRows + 1 : DirThen(i)
    \/ \E i \in 1..MaxRows + 1, ok \in BOOLEAN : MkdirsDone(i, ok)
    \/ \E i \in 1..MaxRows + 1, ok \in BOOLEAN : DescDone(i, ok)
    \/ \E i \in 1..MaxRows + 1, j \in 1..MaxRows + 1, ok \in BOOLEAN : WriteDone(i, j, ok)

SpecImport == ImportInit /\ [][ImportNext]_vars

(***************************************************************************)
(* Properties of saveToTestDir (SpecImport)                                *)
(***************************************************************************)
\* The callback of an operation has run.
Completed(st) == st \in {"ok", "failed"}

\* The directories of the files the rows of the table map to.
TargetDirs ==
    { Dirname(PathJoin(ImportDir, testFor(testRows[k])[1])) : k \in DOMAIN testRows }

\* C1: the target directories are processed one at a time in ascending
\* order of their path; within a directory the Section.meta.txt write starts
\* only after mkdirs has completed and the test-file writes only after the
\* Section.meta.txt write has completed; the mkdirs of the next directory
\* starts only after every test-file write of the directory before it has
\* completed.
C1_DirsOneAtATimeInOrder ==
    ipc = "called" =>
        /\ {sortedDirs[i].dir : i \in DOMAIN sortedDirs} = TargetDirs
        /\ Len(sortedDirs) = Cardinality(TargetDirs)
        /\ \A i, k \in DOMAIN sortedDirs :
              i < k => StrLess(sortedDirs[i].dir, sortedDirs[k].dir)
        /\ \A i \in DOMAIN sortedDirs :
              /\ descSt[i] # "none" => Completed(mkdirsSt[i])
              /\ \A j \in DOMAIN writeSt[i] :
                    writeSt[i][j] # "none" => Completed(descSt[i])
              /\ (i > 1 /\ mkdirsSt[i] # "none") =>
                    /\ Completed(mkdirsSt[i - 1])
                    /\ Completed(descSt[i - 1])
                    /\ \A j \in DOMAIN writeSt[i - 1] : Completed(writeSt[i - 1][j])

\* The second directory is being created after both files of the first
\* were written, for a table whose first row is not of the first directory.
C1_Witness ==
    /\ ipc = "called"
    /\ Len(sortedDirs) >= 2
    /\ mkdirsSt[2] = "pending"
    /\ Len(writeSt[1]) = 2
    /\ writeSt[1] = <<"ok", "ok">>
    /\ GroupRows(<<>>, testRows, ImportDir)[1].dir # sortedDirs[1].dir

\* No operation is in flight and no then callback is waiting to run.
ImportQuiescent ==
    /\ ipc = "called"
    /\ \A i \in DOMAIN sortedDirs :
          /\ mkdirsSt[i] # "pending"
          /\ descSt[i] # "pending"
          /\ \A j \in DOMAIN writeSt[i] : writeSt[i][j] # "pending"
          /\ mkdirsSt[i] = "none" =>
                (i > 1 /\ dirPromise[i - 1].state # "resolved")

\* The failures so far, as rejection reasons.
ImportFailures ==
    {<<"mkdirs", i, 0>> : i \in {k \in DOMAIN sortedDirs : mkdirsSt[k] = "failed"}}
    \cup {<<"desc", i, 0>> : i \in {k \in DOMAIN sortedDirs : descSt[k] = "failed"}}
    \cup UNION { {<<"write", i, j>> : j \in {m \in DOMAIN writeSt[i] : writeSt[i][m] = "failed"}} :
                 i \in DOMAIN sortedDirs }

\* C2, as stated: when a file-system operation has failed, the promise
\* saveToTestDir returned is rejected with a failure by the time nothing is
\* left to run; it is neither resolved nor pending for ever.
C2_FailureRejectsBatch ==
    (ImportQuiescent /\ ImportFailures # {}) =>
        (dirWrites.state = "rejected" /\ dirWrites.reason \in ImportFailures)

\* C3, as stated: after the mkdirs of a directory fails, or the write of its
\* Section.meta.txt fails, no further write is started for that directory
\* and no later directory is created.
C3_NoWriteAfterFailure ==
    ipc = "called" =>
        \A i \in DOMAIN sortedDirs :
            /\ mkdirsSt[i] = "failed" => descSt[i] = "none"
            /\ (mkdirsSt[i] = "failed" \/ descSt[i] = "failed") =>
                  /\ \A j \in DOMAIN writeSt[i] : writeSt[i][j] = "none"
                  /\ \A k \in DOMAIN sortedDirs : k > i => mkdirsSt[k] = "none"

(***************************************************************************)
(* readTestFile, readTestDir and saveToTrCsv                               *)
(***************************************************************************)

\* The directory that is exported.
ExportRoot == Chars("/r/tests")

\* An entry under the root: its path relative to the root, whether it is a
\* directory, its text, and whether git has commits of the file.
Entry(path, isDir, text, hist) ==
    [path |-> path, isDir |-> isDir, text |-> text, hist |-> hist]

\* The entries a tree is made of, in the order fsUtils.walk visits them.
EntryUniverse ==
    << Entry(Chars("a"), TRUE, <<>>, FALSE),
       Entry(Chars("a/x.test.txt"), FALSE, Chars("s1\nExpected Result:\nr1"), TRUE),
       Entry(Chars("a/x.test.txt.bak"), FALSE, Chars("old"), TRUE),
       Entry(Chars("b.test.txt"), FALSE, Chars("Priority: High\ns2"), FALSE),
       Entry(Chars("d.test.txt"), TRUE, <<>>, FALSE),
       Entry(Chars("B/y.test.txt"), FALSE, Chars("s3"), TRUE) >>

\* The entries of EntryUniverse whose index is in keep, in order.
RECURSIVE SelectEntries(_, _)
SelectEntries(k, keep) ==
    IF k > Len(EntryUniverse) THEN <<>>
    ELSE (IF k \in keep THEN <<EntryUniverse[k]>> ELSE <<>>) \o SelectEntries(k + 1, keep)

TreeSet == { SelectEntries(1, keep) : keep \in SUBSET DOMAIN EntryUniverse }

\* The path fsUtils.walk reports for an entry.
TestPathOf(e) == PathJoin(ExportRoot, e.path)

\* !stats.isDirectory() && testPath.match(testFileSuffixRegex)
IsTestFile(e) == ~e.isDir /\ EndsWith(TestPathOf(e), testFileSuffix)

\* The latest commit of the repository, and the commits of a file.
RepoLatest == LogB
CreateLatest(e) == IF e.hist THEN LogA ELSE NoLog
ModifiedLatest(e) == IF e.hist THEN LogB ELSE NoLog

\* readTestFile has been called: fs.readFile is in flight.
NewRead ==
    [st |-> "readFile", promise |-> Pending, currOk |-> FALSE, created |-> NoLog,
     doneAt |-> 0]

\* A join that lets readTestDir complete without waiting for the reads.
NoneAwaited(rs) == TRUE

\* Promise.all(reads) has resolved: every read promise is resolved.
AllRead(rs) == \A f \in DOMAIN rs : rs[f].promise.state = "resolved"

\* A saveToTrCsv that keeps the files in the order they were read.
SortFilesNot(fs) == fs

RECURSIVE InsertFile(_, _)
InsertFile(sorted, e) ==
    IF sorted = <<>> THEN <<e>>
    ELSE IF StrLess(e[1], Head(sorted)[1]) THEN <<e>> \o sorted
    ELSE <<Head(sorted)>> \o InsertFile(Tail(sorted), e)

RECURSIVE SortFilesRec(_)
SortFilesRec(fs) ==
    IF fs = <<>> THEN <<>>
    ELSE InsertFile(SortFilesRec(SubSeq(fs, 1, Len(fs) - 1)), fs[Len(fs)])

\* readTestFiles.sort(...) by a[0], the relative path.
SortFiles(fs) == SortFilesRec(fs)

\* trDate: moment's "M/D/YYYY h:mm A" rendering of a date, kept symbolic.
trDate(date) == Chars("trDate(") \o date \o Chars(")")

\* trSpecial[trField](value)
trSpecial(trField, value) ==
    IF trField \in {"Created On", "Updated On"} THEN trDate(value)
    ELSE IF trField = "Section Depth" THEN ToStr(value)
    ELSE value

\* The CSV row array of a row object: null for a field the row lacks.
CsvRowOf(r) ==
    [j \in DOMAIN trFields |->
        IF trFields[j] \in DOMAIN r THEN trSpecial(trFields[j], r[trFields[j]]) ELSE Null]

\* csvRows of saveToTrCsv for the sorted files.
CsvRowsOf(fs, footer) ==
    <<trFields>> \o [i \in DOMAIN fs |->
                        CsvRowOf(trRowFor(fs[i][1], fs[i][2], fs[i][3], fs[i][4], footer))]

ExportInit ==
    /\ CodecIdle
    /\ ImportIdle
    /\ PathIdle
    /\ epc = "walking"
    /\ tree \in TreeSet
    /\ gitRevParse \in GitRevParseSet
    /\ gitCheck = isGitRepo(gitRevParse)
    /\ walkPos = 1
    /\ reads = EmptyObj
    /\ readTestFiles = <<>>
    /\ readDir = Pending
    /\ csvRows = <<>>
    /\ csvWrite = Pending

\* The walk callback for one entry: a test file is read, and next() called.
WalkEntry ==
    /\ epc = "walking"
    /\ walkPos <= Len(tree)
    /\ reads' = IF IsTestFile(tree[walkPos])
                THEN Assign(reads, [f \in {walkPos} |-> NewRead])
                ELSE reads
    /\ walkPos' = walkPos + 1
    /\ UNCHANGED << epc, tree, gitRevParse, gitCheck, readTestFiles, readDir, csvRows, csvWrite >>
    /\ UNCHANGED << codecVars, importVars, pathVars >>

\* The last walk callback, without next: readTestDir resolves with the
\* accumulator once Promise.all of the reads has resolved.
WalkEnd ==
    /\ epc = "walking"
    /\ walkPos > Len(tree)
    /\ epc' = "walked"
    /\ readDir' = IF AllRead(reads) THEN Resolved ELSE Pending
    /\ UNCHANGED << tree, gitRevParse, gitCheck, walkPos, reads, readTestFiles, csvRows, csvWrite >>
    /\ UNCHANGED << codecVars, importVars, pathVars >>

\* reject(err) of the promise of read f.
RejectRead(rd, reason) ==
    [rd EXCEPT !.promise = IF @.state = "pending" THEN Rejected(reason) ELSE @]

\* resolve([...]) of the promise of read f, followed by the then callback
\* that appends to readTestFiles, and by the join of readTestDir.
ResolveRead(f, rd, createLatest, modifiedLatest) ==
    LET fresh == rd.promise.state = "pending"
        rd2 == [rd EXCEPT !.st = "done",
                          !.promise = IF fresh THEN Resolved ELSE @,
                          !.doneAt = IF fresh THEN Len(readTestFiles) + 1 ELSE @]
    IN  /\ reads' = [reads EXCEPT ![f] = rd2]
        /\ readTestFiles' =
              IF fresh
              THEN Append(readTestFiles,
                          << Relative(ExportRoot, TestPathOf(tree[f])), tree[f].text,
                             createLatest, modifiedLatest >>)
              ELSE readTestFiles
        /\ readDir' = IF epc = "walked" /\ AllRead(reads') THEN Resolved ELSE readDir
        /\ UNCHANGED epc

\* An exception thrown inside a callback is not caught: the process ends.
Crash(f, rd) ==
    /\ reads' = [reads EXCEPT ![f] = [rd EXCEPT !.st = "threw"]]
    /\ epc' = "crashed"
    /\ UNCHANGED << readTestFiles, readDir >>

\* The callback of fs.readFile: rejects on an error and in either case goes
\* on to isGitRepo, which answers or throws.
ReadFileDone(f, ok) ==
    /\ epc \in {"walking", "walked"}
    /\ f \in DOMAIN reads
    /\ reads[f].st = "readFile"
    /\ LET rd == IF ok THEN reads[f] ELSE RejectRead(reads[f], <<"readFile", f>>)
       IN  IF gitCheck = "throws" THEN Crash(f, rd)
           ELSE IF gitCheck = "notRepo" THEN ResolveRead(f, rd, NoLog, NoLog)
           ELSE /\ reads' = [reads EXCEPT ![f] = [rd EXCEPT !.st = "log1"]]
                /\ UNCHANGED << epc, readTestFiles, readDir >>
    /\ UNCHANGED << tree, gitRevParse, gitCheck, walkPos, csvRows, csvWrite >>
    /\ UNCHANGED << codecVars, importVars, pathVars >>

\* The callback of git.log([-1]): rejects on an error and in either case
\* asks for the commit that added the file.
Log1Done(f, ok) ==
    /\ epc \in {"walking", "walked"}
    /\ f \in DOMAIN reads
    /\ reads[f].st = "log1"
    /\ LET rd == IF ok THEN reads[f] ELSE RejectRead(reads[f], <<"gitLog", f>>)
       IN  reads' = [reads EXCEPT ![f] = [rd EXCEPT !.st = "log2", !.currOk = ok]]
    /\ UNCHANGED << epc, tree, gitRevParse, gitCheck, walkPos, readTestFiles, readDir, csvRows, csvWrite >>
    /\ UNCHANGED << codecVars, importVars, pathVars >>

\* The callback of the log of the file's creation: createLog.latest falls
\* back to currLog.latest; reading .latest of a log that is undefined
\* throws.
Log2Done(f, ok) ==
    /\ epc \in {"walking", "walked"}
    /\ f \in DOMAIN reads
    /\ reads[f].st = "log2"
    /\ LET rd == IF ok THEN reads[f] ELSE RejectRead(reads[f], <<"gitLog", f>>)
           own == CreateLatest(tree[f])
       IN  IF ~ok \/ (own = NoLog /\ ~rd.currOk) THEN Crash(f, rd)
           ELSE /\ reads' = [reads EXCEPT ![f] =
                                [rd EXCEPT !.st = "log3",
                                           !.created = IF own = NoLog THEN RepoLatest
                                                       ELSE own]]
                /\ UNCHANGED << epc, readTestFiles, readDir >>
    /\ UNCHANGED << tree, gitRevParse, gitCheck, walkPos, csvRows, csvWrite >>
    /\ UNCHANGED << codecVars, importVars, pathVars >>

\* The callback of the log of the file's last change: the same fallback,
\* then the read resolves with the content and the two log entries.
Log3Done(f, ok) ==
    /\ epc \in {"walking", "walked"}
    /\ f \in DOMAIN reads
    /\ reads[f].st = "log3"
    /\ LET rd == IF ok THEN reads[f] ELSE RejectRead(reads[f], <<"gitLog", f>>)
           own == ModifiedLatest(tree[f])
       IN  IF ~ok \/ (own = NoLog /\ ~rd.currOk) THEN Crash(f, rd)
           ELSE ResolveRead(f, rd, rd.created, IF own = NoLog THEN RepoLatest ELSE own)
    /\ UNCHANGED << tree, gitRevParse, gitCheck, walkPos, csvRows, csvWrite >>
    /\ UNCHANGED << codecVars, importVars, pathVars >>

\* saveToTrCsv, called with what readTestDir resolved with: sorts the
\* files, builds the rows and starts writing them.
SaveToTrCsv(footer) ==
    /\ epc = "walked"
    /\ readDir.state = "resolved"
    /\ readTestFiles' = SortFiles(readTestFiles)
    /\ csvRows' = CsvRowsOf(SortFiles(readTestFiles), footer)
    /\ epc' = "saved"
    /\ UNCHANGED << tree, gitRevParse, gitCheck, walkPos, reads, readDir, csvWrite >>
    /\ UNCHANGED << codecVars, importVars, pathVars >>

\* The callback of the write of the CSV file.
CsvWritten(ok) ==
    /\ epc = "saved"
    /\ csvWrite.state = "pending"
    /\ csvWrite' = IF ok THEN Resolved ELSE Rejected(<<"csv", 0>>)
    /\ UNCHANGED << epc, tree, gitRevParse, gitCheck, walkPos, reads, readTestFiles, readDir, csvRows >>
    /\ UNCHANGED << codecVars, importVars, pathVars >>

ExportNext ==
    \/ WalkEntry
    \/ WalkEnd
    \/ \E f \in DOMAIN EntryUniverse, ok \in BOOLEAN : ReadFileDone(f, ok)
    \/ \E f \in DOMAIN EntryUniverse, ok \in BOOLEAN : Log1Done(f, ok)
    \/ \E f \in DOMAIN EntryUniverse, ok \in BOOLEAN : Log2Done(f, ok)
    \/ \E f \in DOMAIN EntryUniverse, ok \in BOOLEAN : Log3Done(f, ok)
    \/ \E footer \in BOOLEAN : SaveToTrCsv(footer)
    \/ \E ok \in BOOLEAN : CsvWritten(ok)

SpecExport == ExportInit /\ [][ExportNext]_vars

(***************************************************************************)
(* Properties of readTestDir and saveToTrCsv (SpecExport)                  *)
(***************************************************************************)

\* The walk is over and no callback of a read is left to run.
ExportQuiescent ==
    /\ epc = "walked"
    /\ \A f \in DOMAIN reads : reads[f].st = "done"

\* The failures the reads were rejected with.
ReadFailures ==
    { reads[f].promise.reason :
        f \in {g \in DOMAIN reads : reads[g].promise.state = "rejected"} }

\* C4, as stated: when the read of a test file has failed (fs.readFile or
\* git log), the promise readTestDir returned is rejected with that failure
\* by the time nothing is left to run; it is neither resolved nor pending
\* for ever.
C4_ReadFailureRejects ==
    (ExportQuiescent /\ ReadFailures # {}) =>
        (readDir.state = "rejected" /\ readDir.reason \in ReadFailures)

\* The files under the root whose name ends in .test.txt, by relative path.
TestFilePaths ==
    { tree[i].path :
        i \in {k \in DOMAIN tree :
                 ~tree[k].isDir /\ EndsWith(Basename(tree[k].path), Chars(".test.txt"))} }

\* C5: whatever order the reads completed in, saveToTrCsv emits the header
\* row first and then one row per test file, in ascending order of the
\* relative file path.
C5_RowsSortedByPath ==
    epc = "saved" =>
        /\ csvRows[1] = trFields
        /\ Len(csvRows) = Cardinality(TestFilePaths) + 1
        /\ Len(readTestFiles) = Cardinality(TestFilePaths)
        /\ {readTestFiles[i][1] : i \in DOMAIN readTestFiles} = TestFilePaths
        /\ \A i, k \in DOMAIN readTestFiles :
              i < k => StrLess(readTestFiles[i][1], readTestFiles[k][1])
        /\ \E footer \in BOOLEAN :
              \A i \in DOMAIN readTestFiles :
                 csvRows[i + 1] =
                    CsvRowOf(trRowFor(readTestFiles[i][1], readTestFiles[i][2],
                                      readTestFiles[i][3], readTestFiles[i][4], footer))

\* Three files were exported, and a file with a greater path was read
\* before one with a smaller path.
C5_Witness ==
    /\ epc = "saved"
    /\ Len(csvRows) = 4
    /\ \E f, g \in DOMAIN reads :
          /\ reads[f].doneAt < reads[g].doneAt
          /\ StrLess(tree[g].path, tree[f].path)

\* C6: readTestDir resolves only after the walk has ended and every read it
\* launched has completed, and the list it resolves with holds exactly one
\* entry, with the file's content, for each file under the root whose name
\* ends in .test.txt.
C6_ReadsJoined ==
    readDir.state = "resolved" =>
        /\ epc \in {"walked", "saved"}
        /\ \A f \in DOMAIN reads :
              reads[f].st = "done" /\ reads[f].promise.state = "resolved"
        /\ {readTestFiles[i][1] : i \in DOMAIN readTestFiles} = TestFilePaths
        /\ Len(readTestFiles) = Cardinality(TestFilePaths)
        /\ \A i \in DOMAIN readTestFiles :
              \E k \in DOMAIN tree :
                 tree[k].path = readTestFiles[i][1] /\ tree[k].text = readTestFiles[i][2]

\* readTestDir has resolved with three files read with their git logs, of
\* a tree that also holds a directory and a file that must not be read.
C6_Witness ==
    /\ readDir.state = "resolved"
    /\ epc = "walked"
    /\ gitCheck = "repo"
    /\ Len(readTestFiles) = 3
    /\ Len(tree) = Len(EntryUniverse)

(***************************************************************************)
(* safePath followed by pathToTrSection (SpecPath)                         *)
(***************************************************************************)

\* Section strings: nested labels, raw separators, dots, empty labels.
SectionPathSet ==
    { <<>>, Chars("a"), Chars("a > b"), Chars("sectionA > sectionB"), Chars("A_1 > b2 > c"),
      Chars("x/y"), Chars("a\\b"), Chars(".."), Chars("a > .."), Chars("a.b > c"),
      Chars(" > a"), Chars("a >  > b") }

\* Titles: plain, with characters to replace, dots, separators, too long.
PathTitleSet ==
    { <<>>, Chars("T1"), Chars("My Test!"), Chars("."), Chars(".."), Chars("a/b"),
      Chars("x.y"), Chars("../up"), Chars("t\\u"), LongTitle }

PathInit ==
    /\ CodecIdle
    /\ ImportIdle
    /\ ExportIdle
    /\ ppc = "safePath"
    /\ sectionPath \in SectionPathSet
    /\ title \in PathTitleSet
    /\ fullPath = <<>>
    /\ trSection = <<>>

\* safePath(sectionPath, title)
SafePath ==
    /\ ppc = "safePath"
    /\ fullPath' = safePath(sectionPath, title)
    /\ ppc' = "pathToTrSection"
    /\ UNCHANGED << sectionPath, title, trSection >>
    /\ UNCHANGED << codecVars, importVars, exportVars >>

\* pathToTrSection of the test file testFor names: the path and the suffix.
PathToTrSection ==
    /\ ppc = "pathToTrSection"
    /\ trSection' = pathToTrSection(fullPath \o testFileSuffix)
    /\ ppc' = "done"
    /\ UNCHANGED << sectionPath, title, fullPath >>
    /\ UNCHANGED << codecVars, importVars, exportVars >>

PathNext == SafePath \/ PathToTrSection

SpecPath == PathInit /\ [][PathNext]_vars

(***************************************************************************)
(* Properties of safePath and pathToTrSection (SpecPath)                   *)
(***************************************************************************)

\* The characters of [A-Za-z0-9_] and the path separator.
PathAlphabet ==
    Range(Chars("ABCDEFGHIJKLMNOPQRSTUVWXYZabcdefghijklmnopqrstuvwxyz0123456789_/"))

\* C11: for every section string and every title, what safePath returns
\* consists only of characters of [A-Za-z0-9_] and path separators; it holds
\* no '.', and so no parent-directory segment.
C11_SafePathAlphabet ==
    ppc \in {"pathToTrSection", "done"} =>
        /\ \A i \in DOMAIN fullPath : fullPath[i] \in PathAlphabet
        /\ \A i \in DOMAIN fullPath : fullPath[i] # "."

\* safePath has returned for a section with a dot and a title with a blank
\* and an exclamation mark.
C11_Witness ==
    /\ ppc = "pathToTrSection"
    /\ sectionPath = Chars("a.b > c")
    /\ title = Chars("My Test!")
    /\ fullPath = Chars("a_b/c/My_Test_")

\* The labels of a section hierarchy: its parts between " > ".
RECURSIVE LabelsFrom(_, _)
LabelsFrom(s, label) ==
    IF s = <<>> THEN <<label>>
    ELSE IF Len(s) >= 3 /\ SubSeq(s, 1, 3) = <<" ", ">", " ">>
    THEN <<label>> \o LabelsFrom(SubSeq(s, 4, Len(s)), <<>>)
    ELSE LabelsFrom(Tail(s), Append(label, Head(s)))

\* Every label is non-empty and of characters of [A-Za-z0-9_].
PlainHierarchy(s) ==
    \A k \in DOMAIN LabelsFrom(s, <<>>) :
        LET l == LabelsFrom(s, <<>>)[k]
        IN  l # <<>> /\ \A i \in DOMAIN l : l[i] \in PathAlphabet \ {"/"}

\* C20, as stated: for a hierarchy of non-empty labels of [A-Za-z0-9_] and
\* every title, pathToTrSection of safePath(hierarchy, title) plus the
\* .test.txt suffix is the hierarchy again.
C20_SectionRoundTrip ==
    (ppc = "done" /\ PlainHierarchy(sectionPath)) => trSection = sectionPath

(***************************************************************************)
(* Further properties of testFor (SpecCodec)                               *)
(***************************************************************************)

\* testFor has returned for the row trRow.
TestForReturned == trRow # EmptyObj /\ pc \in {"parse", "done"}

\* The text after the last empty line of s: what testFor appends after the
\* steps and the expected result.
RECURSIVE AfterLastBlank(_, _)
AfterLastBlank(s, k) ==
    IF k < 2 THEN s
    ELSE IF s[k - 1] = "\n" /\ s[k] = "\n" THEN SubSeq(s, k + 1, Len(s))
    ELSE AfterLastBlank(s, k - 1)

\* The field lines at the end of the content.
AppendedLines ==
    LET tail == AfterLastBlank(content, Len(content))
    IN  IF tail = <<>> THEN <<>> ELSE Split(tail, "\n")

\* The persisted-field list the specification declares.
DeclaredPersisted ==
    << "ID", "Created By", "Created On", "Milestone", "Priority", "References",
       "Suite", "Suite ID", "Type" >>

\* The positions in the declared list of the fields the row has a value of.
PresentPersisted ==
    { k \in DOMAIN DeclaredPersisted :
        DeclaredPersisted[k] \in DOMAIN trRow /\ trRow[DeclaredPersisted[k]] # Null }

\* C12: the field lines testFor appends are, in the declared order and once
\* each, "<FieldName>: <value>" for exactly the fields of the persisted list
\* that the row has a non-null value of; no line is written for Updated By,
\* Updated On or Title.
C12_PersistedFieldLines ==
    TestForReturned =>
        /\ Len(AppendedLines) = Cardinality(PresentPersisted)
        /\ \A k \in PresentPersisted :
              LET i == Cardinality({m \in PresentPersisted : m < k}) + 1
              IN  AppendedLines[i] = Chars(DeclaredPersisted[k]) \o Chars(": ")
                                        \o trRow[DeclaredPersisted[k]]
        /\ \A i \in DOMAIN AppendedLines :
              /\ ~StartsWith(AppendedLines[i], Chars("Updated By:"))
              /\ ~StartsWith(AppendedLines[i], Chars("Updated On:"))
              /\ ~StartsWith(AppendedLines[i], Chars("Title:"))

\* testFor has returned for a row with a Title, an ID, a Priority and an
\* Updated By column.
C12_Witness ==
    /\ TestForReturned
    /\ pc = "parse" /\ idx = 1
    /\ Get(trRow, "Title") = Chars("T1")
    /\ Get(trRow, "ID") = Chars("7")
    /\ Get(trRow, "Priority") = Chars("High")
    /\ Get(trRow, "Updated By") = Chars("u")
    /\ Len(AppendedLines) = 2

\* C13, as stated: for a row that lacks any of the columns Title, Section,
\* Section Hierarchy, Steps and Expected Result, testFor returns a path and
\* a content without failing, and the content holds no text standing for an
\* absent column.
C13_TestForBestEffort ==
    (trRow # EmptyObj /\ pc # "testFor") =>
        /\ pc # "threw"
        /\ "Steps" \notin DOMAIN trRow => ~StartsWith(content, Chars("undefined"))

(***************************************************************************)
(* Properties of readTestFile (SpecExport)                                 *)
(***************************************************************************)

\* The keys trRowFor takes from the git logs.
GitKeys == {"Created By", "Created On", "Updated By", "Updated On"}

\* The entry of the tree a read file came from.
EntryOf(file) == CHOOSE k \in DOMAIN tree : tree[k].path = file[1]

\* C14, as stated: in a directory that is not under version control the
\* read of a test file does not fail; it resolves with null logs, and the
\* row built from it has none of the keys Created By, Created On, Updated By
\* and Updated On.
C14_NoRepoReadsWithoutGitInfo ==
    gitRevParse.status # 0 =>
        /\ epc # "crashed"
        /\ \A f \in DOMAIN reads : reads[f].st # "threw"
        /\ \A i \in DOMAIN readTestFiles :
              /\ readTestFiles[i][3] = NoLog
              /\ readTestFiles[i][4] = NoLog
              /\ DOMAIN trRowFor(readTestFiles[i][1], readTestFiles[i][2],
                                 readTestFiles[i][3], readTestFiles[i][4], FALSE)
                   \cap GitKeys = {}

\* C15, as stated: a read resolves with creation and modification logs only
\* for a file that lies in a version-controlled directory and has history of
\* its own; for a file without history both are absent.
C15_NoFabricatedGitInfo ==
    \A i \in DOMAIN readTestFiles :
        (gitRevParse.status # 0 \/ ~tree[EntryOf(readTestFiles[i])].hist) =>
            /\ readTestFiles[i][3] = NoLog
            /\ readTestFiles[i][4] = NoLog

(***************************************************************************)
(* Properties of the line parser of trRowFor (SpecCodec)                   *)
(***************************************************************************)

\* The loop of trRowFor is about to handle lines[idx].
AtLine == pc = "parse" /\ idx <= Len(lines)

\* The text of a field line after its colon, less one leading blank.
ValueAfterColon(line) ==
    LET c == CHOOSE i \in DOMAIN line : line[i] = ":" /\ \A k \in 1..(i - 1) : line[k] # ":"
        rest == SubSeq(line, c + 1, Len(line))
    IN  IF rest # <<>> /\ Head(rest) \in {" ", "\t"} THEN Tail(rest) ELSE rest

\* C16: a line matching a recognized field other than Steps and Expected
\* Result is consumed: its value is stored in the field map, it is appended
\* to neither the steps nor the result text, and the state (step or result)
\* stays what it was; a line matching no field is appended to the text of
\* the state, which stays.
C16_FieldLineConsumed ==
    [][AtLine =>
        LET line == lines[idx]
            f == FieldOf(line)
        IN  /\ f \notin {"", "Steps", "Expected Result"} =>
                  /\ stepLines' = stepLines
                  /\ resultLines' = resultLines
                  /\ lineType' = lineType
                  /\ f \in DOMAIN contentFields'
                  /\ contentFields'[f] = ValueAfterColon(line)
            /\ f = "" =>
                  /\ lineType' = lineType
                  /\ contentFields' = contentFields
                  /\ lineType = "step" =>
                        stepLines' = Append(stepLines, line) /\ resultLines' = resultLines
                  /\ lineType = "result" =>
                        resultLines' = Append(resultLines, line) /\ stepLines' = stepLines
    ]_vars

\* A step line, a Priority line and another line have been parsed: the
\* Priority is in the field map and both other lines are steps.
C16_Witness ==
    /\ pc = "parse"
    /\ idx = 4
    /\ lines = << Chars("s1"), Chars("Priority: High"), Chars("r 2") >>
    /\ stepLines = << Chars("s1"), Chars("r 2") >>
    /\ resultLines = <<>>
    /\ contentFields = [k \in {"Priority"} |-> Chars("High")]

\* C17: the parser starts in the step state; a line matching the Steps
\* field puts it in the step state from any state and its trailing content
\* is appended as a step line; a line matching the Expected Result field
\* puts it in the result state from any state and its trailing content is
\* appended as a result line.
C17_MarkerTransitions ==
    [][AtLine =>
        LET line == lines[idx]
        IN  /\ idx = 1 => lineType = "step"
            /\ IsStepsMarker(line) =>
                  /\ lineType' = "step"
                  /\ stepLines' = Append(stepLines, ValueAfterColon(line))
                  /\ resultLines' = resultLines
            /\ IsResultMarker(line) =>
                  /\ lineType' = "result"
                  /\ resultLines' = Append(resultLines, ValueAfterColon(line))
                  /\ stepLines' = stepLines
    ]_vars

\* An Expected Result line with content and then a Steps line have been
\* parsed: the parser is back in the step state.
C17_Witness ==
    /\ pc = "parse"
    /\ idx = 3
    /\ lines[1] = Chars(" expected result : r1")
    /\ lines[2] = Chars("Steps: s2")
    /\ lineType = "step"
    /\ resultLines = << Chars("r1") >>
    /\ stepLines = << Chars("s2") >>

(***************************************************************************)
(* Properties of the files saveToTestDir writes (SpecImport)               *)
(***************************************************************************)

\* The file row k of the table is written to, and what is written.
TargetFile(k) == PathJoin(ImportDir, testFor(testRows[k])[1])
TargetContent(k) == testFor(testRows[k])[2]

\* C18, as stated: when rows of the table derive the same target file, the
\* file holds, once saveToTestDir has completed, the content of the last of
\* them in table order, whatever order the writes completed in.
C18_LastRowWins ==
    (ipc = "called" /\ dirWrites.state = "resolved") =>
        \A k \in DOMAIN testRows :
            (\A m \in DOMAIN testRows : m > k => TargetFile(m) # TargetFile(k)) =>
                /\ TargetFile(k) \in DOMAIN disk
                /\ disk[TargetFile(k)] = TargetContent(k)

\* The first row of the table whose file lies in directory d.
FirstRowIn(d) ==
    CHOOSE k \in DOMAIN testRows :
        /\ Dirname(TargetFile(k)) = d
        /\ \A m \in DOMAIN testRows : Dirname(TargetFile(m)) = d => k <= m

\* Every directory has one entry, whose description file is the
\* directory's Section.meta.txt with the Section Description of the first
\* row of the directory; a description written is on disk, and all are
\* written when saveToTestDir has completed.
OneDescPerDir ==
    ipc = "called" =>
        /\ \A d \in TargetDirs :
              \E i \in DOMAIN sortedDirs :
                 /\ sortedDirs[i].dir = d
                 /\ \A k \in DOMAIN sortedDirs : sortedDirs[k].dir = d => k = i
                 /\ sortedDirs[i].desc[1] = d \o Chars("/Section.meta.txt")
                 /\ sortedDirs[i].desc[2] = Get(testRows[FirstRowIn(d)], "Section Description")
                 /\ descSt[i] = "ok" =>
                       /\ sortedDirs[i].desc[1] \in DOMAIN disk
                       /\ disk[sortedDirs[i].desc[1]] = sortedDirs[i].desc[2]
        /\ dirWrites.state = "resolved" => \A i \in DOMAIN sortedDirs : descSt[i] = "ok"

\* The write of a description file is started once: after it was started
\* it only completes, and after it completed nothing changes it.
DescWrittenOnce ==
    ipc = "called" =>
        \A i \in DOMAIN sortedDirs :
            /\ descSt[i] = "pending" => descSt'[i] \in {"pending", "ok", "failed"}
            /\ descSt[i] \in {"ok", "failed"} => descSt'[i] = descSt[i]
            /\ descSt[i] = "ok" =>
                  disk'[sortedDirs[i].desc[1]] = disk[sortedDirs[i].desc[1]]

\* C19: for every distinct target directory one Section.meta.txt write is
\* issued and no second one; its content is the Section Description of the
\* first row, in table order, whose file lies in the directory, and later
\* rows of the directory do not change it; when saveToTestDir has completed
\* every directory's description has been written.
C19_OneDescriptionPerDir == []OneDescPerDir /\ [][DescWrittenOnce]_vars

\* An import of three rows into two directories has completed; two rows of
\* one directory carry different descriptions and the first is not the one
\* that sorts first.
C19_Witness ==
    /\ ipc = "called"
    /\ dirWrites.state = "resolved"
    /\ Len(testRows) = 3
    /\ Len(sortedDirs) = 2
    /\ \E k, m \in DOMAIN testRows :
          /\ k < m
          /\ Dirname(TargetFile(k)) = Dirname(TargetFile(m))
          /\ Get(testRows[k], "Section Description") = Chars("dA3")
          /\ Get(testRows[m], "Section Description") = Chars("dA")
          /\ disk[Dirname(TargetFile(k)) \o Chars("/Section.meta.txt")] = Chars("dA3")

(***************************************************************************)
(* saveToTestDir when every operation succeeds (SpecImportLive)            *)
(***************************************************************************)

\* The steps of an import all of whose mkdirs and writes succeed.
ImportNextOk ==
    \/ SaveToTestDir
    \/ \E i \in 1..MaxRows + 1 : DirThen(i)
    \/ \E i \in 1..MaxRows + 1 : MkdirsDone(i, TRUE)
    \/ \E i \in 1..MaxRows + 1 : DescDone(i, TRUE)
    \/ \E i \in 1..MaxRows + 1, j \in 1..MaxRows + 1 : WriteDone(i, j, TRUE)

\* The callbacks of such an import: what the event loop runs after the call.
ImportCallbacksOk ==
    \/ \E i \in 1..MaxRows + 1 : DirThen(i)
    \/ \E i \in 1..MaxRows + 1 : MkdirsDone(i, TRUE)
    \/ \E i \in 1..MaxRows + 1 : DescDone(i, TRUE)
    \/ \E i \in 1..MaxRows + 1, j \in 1..MaxRows + 1 : WriteDone(i, j, TRUE)

\* Every operation in flight completes and every then callback that is due
\* runs: the event loop does not stop while a callback is due.
SpecImportLive == ImportInit /\ [][ImportNextOk]_vars /\ WF_vars(ImportCallbacksOk)

\* The promise saveToTestDir returned has resolved.
ImportResolved == ipc = "called" /\ dirWrites.state = "resolved"

\* Every description write and every test-file write has completed.
AllFilesWritten ==
    \A i \in DOMAIN sortedDirs :
        /\ descSt[i] = "ok"
        /\ \A j \in DOMAIN writeSt[i] : writeSt[i][j] = "ok"

\* C21, as stated: for any table, when every mkdirs and every write
\* completes successfully, the promise of a call of saveToTestDir eventually
\* resolves, and when it has resolved every test-file write and every
\* Section.meta.txt write has completed.
C21_ImportResolves ==
    /\ (ipc # "ready") ~> ImportResolved
    /\ [](ImportResolved => AllFilesWritten)

\* The same for the calls that return a promise: the tables on none of
\* whose rows testFor throws.
ImportResolvesOnceCalled ==
    /\ (ipc = "called") ~> ImportResolved
    /\ [](ImportResolved => AllFilesWritten)

(***************************************************************************)
(* Inline fields and git metadata in trRowFor (SpecCodec)                  *)
(***************************************************************************)

\* The lines of the parsed content that are annotations of field f.
LinesOf(f) == { k \in DOMAIN lines : FieldOf(lines[k]) = f }

\* The value of the last annotation of field f in the content.
InlineValue(f) ==
    ValueAfterColon(lines[CHOOSE k \in LinesOf(f) : \A m \in LinesOf(f) : m <= k])

\* C22: a value given by an inline annotation of the content takes
\* precedence over the value derived from the git logs: a row built from a
\* content with a Created By or Created On line carries the content's value,
\* with git metadata or without; a creation or update field the content does
\* not annotate carries the value of the logs.
C22_InlineFieldOverridesGit ==
    pc = "done" =>
        /\ \A f \in {"Created By", "Created On"} :
              LinesOf(f) # {} => (f \in DOMAIN row /\ row[f] = InlineValue(f))
        /\ (createLog # NoLog /\ modifiedLog # NoLog) =>
              /\ LinesOf("Created By") = {} =>
                    Get(row, "Created By")
                        = createLog[1] \o Chars(" (") \o createLog[2] \o Chars(")")
              /\ LinesOf("Created On") = {} => Get(row, "Created On") = createLog[3]

\* A file with a "created by:me" line and git logs has been parsed: the row
\* has the content's Created By and the logs' Created On and Updated By.
C22_Witness ==
    /\ pc = "done"
    /\ trRow = EmptyObj
    /\ createLog = LogA /\ modifiedLog = LogB
    /\ LinesOf("Created By") # {}
    /\ Get(row, "Created By") = Chars("me")
    /\ Get(row, "Created On") = LogA[3]
    /\ Get(row, "Updated By") = Chars("Bob (bob@x.org)")

====
